---------------------------- MODULE Spec2Model ----------------------------
(***************************************************************************)
(* Model of decoupled-search: the lexical fallback scorer (lib/demo-mode), *)
(* the HTTP handlers GET /api/search and POST /api/revalidate, and the     *)
(* content indexer script (scripts/index-content.ts), the mapping of raw   *)
(* content nodes to articles, and the search page component.               *)
(*                                                                         *)
(* Strings are sequences of one-character strings, so that toLowerCase,    *)
(* split, includes, startsWith and parseInt are computed, not assumed.     *)
(* Scores are counted in tenths (0.5 is 5, 0.1 is 1, 0.2 is 2, the cap 1   *)
(* is 10): the rounding of IEEE doubles is not modelled.                   *)
(***************************************************************************)
EXTENDS Integers, Sequences, FiniteSets, TLC

(***************************************************************************)
(* JavaScript values.  A value that may be null or undefined is None or    *)
(* Some(v); a number is Num(n) or NaN.                                     *)
(***************************************************************************)
None == <<>>
Some(v) == <<v>>
IsNone(o) == o = <<>>
Val(o) == o[1]

\* !s for a string that may be absent: null, undefined and "" are falsy.
Falsy(o) == IF IsNone(o) THEN TRUE ELSE Val(o) = <<>>

NaN == [nan |-> TRUE, n |-> 0]
Num(k) == [nan |-> FALSE, n |-> k]

(***************************************************************************)
(* Bounds of the model.                                                    *)
(***************************************************************************)
MaxQueryParts == 2
MaxCorpus == 2

(***************************************************************************)
(* The state.                                                              *)
(*   Scorer: the corpus, loaded once, and the last call of mockSearch: its *)
(*   query, limit, scores before filtering, result; the number of calls    *)
(*   made, what the first of them was given and returned, and whether a    *)
(*   call with other arguments was made after it.                          *)
(*   HTTP handlers: process.env, the request, the response, the backend    *)
(*   calls made for the request, the error searchArticles threw, and where *)
(*   the handler stands.                                                   *)
(*   Indexer: the --reset flag, the articles of the content source, the    *)
(*   state and the records of the index, and main()'s position, fetched    *)
(*   articles, loop counter, current embedding, provider calls issued,     *)
(*   exit code, the call whose error reached the catch block, how          *)
(*   deleteAll ended and the requests of the loop that have not settled    *)
(*   yet; the number of the run, the records the index held when the run   *)
(*   began and a summary of the run before it.                             *)
(*   Normalizer: the raw nodes of one GraphQL answer, the articles made of *)
(*   them, and whether the mapping has run; the argument of one call of    *)
(*   transformArticle and how the call ended.                              *)
(*   Search page: whether the component has mounted, the q parameter of    *)
(*   the address bar, the query text, the SearchState shown, the query the *)
(*   pending debounce timer will search for, the time since the timer was  *)
(*   last set, the requests sent to /api/search with their answers, the    *)
(*   number of changes of the query text, and whether the state was reset  *)
(*   after the latest request was sent.                                    *)
(***************************************************************************)
VARIABLES articles, msQuery, msLimit, msScored, msResults, msCalls, msFirst

VARIABLES env, req, resp, calls, thrown, apiPc

VARIABLES shouldReset, snapshot, indexState, store, ixPc, ixArticles, ixI,
          ixEmbedding, ixOps, ixExit, ixError, ixClear, ixPending

VARIABLES ixRun, ixStart, ixPrev

VARIABLES nzNodes, nzArticles, nzPc, taNode, taResult

VARIABLES uiPc, uiUrl, uiQuery, uiState, uiTimer, uiElapsed, uiRequests,
          uiChanges, uiReset

msVars == <<msQuery, msLimit, msScored, msResults, msCalls, msFirst>>
scorerVars == <<articles, msVars>>
apiVars == <<env, req, resp, calls, thrown, apiPc>>
ixPast == <<ixRun, ixStart, ixPrev>>
nzVars == <<nzNodes, nzArticles, nzPc, taNode, taResult>>
uiVars == <<uiPc, uiUrl, uiQuery, uiState, uiTimer, uiElapsed, uiRequests,
            uiChanges, uiReset>>
ixVars == <<shouldReset, snapshot, indexState, store, ixPc, ixArticles, ixI,
            ixEmbedding, ixOps, ixExit, ixError, ixClear, ixPending, ixPast>>

(***************************************************************************)
(* String primitives of the JavaScript runtime.                            *)
(***************************************************************************)
UpperToLower ==
    ("A" :> "a") @@ ("B" :> "b") @@ ("C" :> "c") @@ ("D" :> "d") @@
    ("E" :> "e") @@ ("F" :> "f") @@ ("G" :> "g") @@ ("H" :> "h") @@
    ("I" :> "i") @@ ("J" :> "j") @@ ("K" :> "k") @@ ("L" :> "l") @@
    ("M" :> "m") @@ ("N" :> "n") @@ ("O" :> "o") @@ ("P" :> "p") @@
    ("Q" :> "q") @@ ("R" :> "r") @@ ("S" :> "s") @@ ("T" :> "t") @@
    ("U" :> "u") @@ ("V" :> "v") @@ ("W" :> "w") @@ ("X" :> "x") @@
    ("Y" :> "y") @@ ("Z" :> "z")

ToLowerCase(s) ==
    [i \in 1..Len(s) |->
        IF s[i] \in DOMAIN UpperToLower THEN UpperToLower[s[i]] ELSE s[i]]

\* String.prototype.includes: t occurs in s as a contiguous substring.
Includes(s, t) ==
    \E i \in 0..(Len(s) - Len(t)) : SubSeq(s, i + 1, i + Len(t)) = t

\* String.prototype.startsWith.
StartsWith(s, t) ==
    Len(t) <= Len(s) /\ SubSeq(s, 1, Len(t)) = t

\* The characters the regular expression class \s matches.
IsSpace(c) == c \in {" ", "\t", "\n"}

\* String.prototype.trim.
RECURSIVE Trim(_)
Trim(s) ==
    IF s = <<>> THEN s
    ELSE IF IsSpace(s[1]) THEN Trim(Tail(s))
    ELSE IF IsSpace(s[Len(s)]) THEN Trim(SubSeq(s, 1, Len(s) - 1))
    ELSE s

\* String.prototype.split(/\s+/): the pieces between the maximal runs of
\* whitespace; a leading or trailing run leaves an empty piece.
RECURSIVE SplitWhitespace(_)
SplitWhitespace(s) ==
    IF \A i \in 1..Len(s) : ~IsSpace(s[i]) THEN <<s>>
    ELSE
        LET i == CHOOSE k \in 1..Len(s) :
                    IsSpace(s[k]) /\ \A m \in 1..(k - 1) : ~IsSpace(s[m])
            j == CHOOSE k \in i..Len(s) :
                    /\ \A m \in i..k : IsSpace(s[m])
                    /\ (k = Len(s) \/ ~IsSpace(s[k + 1]))
        IN <<SubSeq(s, 1, i - 1)>> \o SplitWhitespace(SubSeq(s, j + 1, Len(s)))

\* Array.prototype.join.
RECURSIVE Join(_, _)
Join(parts, sep) ==
    IF parts = <<>> THEN <<>>
    ELSE IF Len(parts) = 1 THEN parts[1]
    ELSE parts[1] \o sep \o Join(Tail(parts), sep)

\* Math.min on the tenths.
Min(a, b) == IF a <= b THEN a ELSE b

\* Array.prototype.slice(0, end): NaN counts as 0, a negative end counts
\* from the end of the array, an end past the array stops at its length.
Slice0(arr, end) ==
    LET n == Len(arr)
        e == IF end.nan THEN 0
             ELSE IF end.n < 0 THEN (IF n + end.n < 0 THEN 0 ELSE n + end.n)
             ELSE IF end.n > n THEN n ELSE end.n
    IN SubSeq(arr, 1, e)

(***************************************************************************)
(* The mock corpus (data/mock/articles.json, read by getMockArticles) and  *)
(* the queries the scorer is called with.                                  *)
(***************************************************************************)
sTypeScriptGuide == <<"T","y","p","e","S","c","r","i","p","t"," ","G","u","i","d","e">>
sTypescript == <<"t","y","p","e","s","c","r","i","p","t">>
sDev == <<"D","e","v">>
sApi == <<"a","p","i">>
sTs == <<"t","s">>
sApiDesign == <<"A","P","I"," ","D","e","s","i","g","n">>
sRestApiGuide == <<"A"," ","R","E","S","T"," ","a","p","i"," ","g","u","i","d","e">>
sTypedDev == <<"t","y","p","e","d"," ","d","e","v">>
sCooking == <<"C","o","o","k","i","n","g">>
sFood == <<"F","o","o","d">>

ArticlePool ==
    { [id |-> "a1", title |-> sTypeScriptGuide, summary |-> <<>>, body |-> <<>>,
       category |-> sDev, tags |-> Some(<<>>)],
      [id |-> "a2", title |-> sApiDesign, summary |-> sRestApiGuide,
       body |-> sTypedDev, category |-> sDev, tags |-> Some(<<sApi, sTs>>)],
      [id |-> "a3", title |-> sCooking, summary |-> <<>>, body |-> <<>>,
       category |-> sFood, tags |-> None] }

TypeScriptGuideCorpus ==
    <<[id |-> "a1", title |-> sTypeScriptGuide, summary |-> <<>>, body |-> <<>>,
       category |-> sDev, tags |-> Some(<<>>)]>>

\* The corpora: sequences of distinct articles of the pool.
Corpora ==
    { c \in UNION { [1..n -> ArticlePool] : n \in 0..MaxCorpus } :
        \A i, j \in 1..Len(c) : i # j => c[i] # c[j] }

QueryParts == { sTypescript, sTypeScriptGuide, sDev, sTs, <<" ">>, <<"\t">> }

RECURSIVE Concat(_)
Concat(parts) == IF parts = <<>> THEN <<>> ELSE parts[1] \o Concat(Tail(parts))

Queries ==
    { Concat(p) : p \in UNION { [1..n -> QueryParts] : n \in 0..MaxQueryParts } }

\* The values of the limit argument: the default, small counts, a negative
\* count and the NaN that parseInt gives for an unparsable parameter.
Limits == { NaN } \cup { Num(k) : k \in {-1, 0, 1, 10} }

(***************************************************************************)
(* lib/demo-mode: mockSearch.                                              *)
(***************************************************************************)
PhraseBonus == 5
WordBonus == 1
TitleBonus == 2
ScoreCap == 10
MinWordLength == 2

\* queryWords: the pieces of the lowercased query longer than two characters.
QueryWords(queryLower) ==
    SelectSeq(SplitWhitespace(queryLower), LAMBDA w : Len(w) > MinWordLength)

\* searchableContent: title, summary, body, category and the tags, joined
\* by single spaces and lowercased.
SearchableContent(article) ==
    ToLowerCase(Join(
        <<article.title, article.summary, article.body, article.category>>
            \o (IF IsNone(article.tags) THEN <<>> ELSE Val(article.tags)),
        <<" ">>))

\* One turn of the loop over queryWords.
WordStep(score, word, searchableContent, titleLower) ==
    IF Includes(searchableContent, word)
    THEN IF Includes(titleLower, word)
         THEN score + WordBonus + TitleBonus
         ELSE score + WordBonus
    ELSE score

RECURSIVE WordLoop(_, _, _, _)
WordLoop(score, words, searchableContent, titleLower) ==
    IF words = <<>> THEN score
    ELSE WordLoop(WordStep(score, words[1], searchableContent, titleLower),
                  Tail(words), searchableContent, titleLower)

\* Variant: the phrase bonus is never given.
PhraseStep_NoBonus(score, searchableContent, queryLower) == score

\* The phrase step: the whole lowercased query as a substring.
PhraseStep(score, searchableContent, queryLower) ==
    IF Includes(searchableContent, queryLower) THEN score + PhraseBonus ELSE score

\* Variant: the score is left uncapped.
Normalize_NoCap(score) == score

\* score = Math.min(score, 1)
Normalize(score) == Min(score, ScoreCap)

\* The body of articles.map: the score of one article.
ScoreArticle(article, query) ==
    LET queryLower == ToLowerCase(query)
        searchableContent == SearchableContent(article)
    IN Normalize(WordLoop(PhraseStep(0, searchableContent, queryLower),
                          QueryWords(queryLower),
                          searchableContent,
                          ToLowerCase(article.title)))

Scored(corpus, query) ==
    [i \in 1..Len(corpus) |->
        [id |-> corpus[i].id, score |-> ScoreArticle(corpus[i], query),
         article |-> corpus[i]]]

\* Variant: items that scored 0 are kept.
KeepItem_NonNegative(item) == item.score >= 0

\* .filter(item => item.score > 0)
KeepItem(item) == item.score > 0

\* Variant: the items are left in corpus order.
SortByScore_Unsorted(items) == items

\* Variant: an item goes in front of the items of equal score.
RECURSIVE SortByScore_TiesReversed(_)
SortByScore_TiesReversed(items) ==
    IF items = <<>> THEN <<>>
    ELSE LET rest == SortByScore_TiesReversed(SubSeq(items, 1, Len(items) - 1))
             x == items[Len(items)]
             k == Cardinality({ i \in 1..Len(rest) : rest[i].score > x.score })
         IN SubSeq(rest, 1, k) \o <<x>> \o SubSeq(rest, k + 1, Len(rest))

\* .sort((a, b) => b.score - a.score): Array.prototype.sort is stable, so an
\* item goes behind every item whose score is not lower than its own.
RECURSIVE SortByScore(_)
SortByScore(items) ==
    IF items = <<>> THEN <<>>
    ELSE LET rest == SortByScore(SubSeq(items, 1, Len(items) - 1))
             x == items[Len(items)]
             k == Cardinality({ i \in 1..Len(rest) : rest[i].score >= x.score })
         IN SubSeq(rest, 1, k) \o <<x>> \o SubSeq(rest, k + 1, Len(rest))

mockSearch(corpus, query, limit) ==
    Slice0(SortByScore(SelectSeq(Scored(corpus, query), KeepItem)), limit)


(***************************************************************************)
(* More of the JavaScript runtime: parseInt(s, 10).                        *)
(***************************************************************************)
DigitVal ==
    ("0" :> 0) @@ ("1" :> 1) @@ ("2" :> 2) @@ ("3" :> 3) @@ ("4" :> 4) @@
    ("5" :> 5) @@ ("6" :> 6) @@ ("7" :> 7) @@ ("8" :> 8) @@ ("9" :> 9)

RECURSIVE TrimStart(_)
TrimStart(s) == IF s # <<>> /\ IsSpace(s[1]) THEN TrimStart(Tail(s)) ELSE s

RECURSIVE DigitsPrefix(_)
DigitsPrefix(s) ==
    IF s # <<>> /\ s[1] \in DOMAIN DigitVal
    THEN <<s[1]>> \o DigitsPrefix(Tail(s)) ELSE <<>>

RECURSIVE DigitsValue(_, _)
DigitsValue(acc, d) ==
    IF d = <<>> THEN acc ELSE DigitsValue(10 * acc + DigitVal[d[1]], Tail(d))

\* Leading whitespace is skipped, a sign is read, then the longest run of
\* digits; no digit at all gives NaN.
ParseInt(s) ==
    LET t == TrimStart(s)
        signed == t # <<>> /\ t[1] \in {"-", "+"}
        d == DigitsPrefix(IF signed THEN Tail(t) ELSE t)
    IN IF d = <<>> THEN NaN
       ELSE IF signed /\ t[1] = "-" THEN Num(0 - DigitsValue(0, d))
       ELSE Num(DigitsValue(0, d))

(***************************************************************************)
(* process.env, the requests, the responses.                               *)
(***************************************************************************)
sPINECONE_API_KEY ==
    <<"P","I","N","E","C","O","N","E","_","A","P","I","_","K","E","Y">>

MsgQueryRequired ==
    <<"Q","u","e","r","y"," ","p","a","r","a","m","e","t","e","r"," ","\"",
      "q","\""," ","i","s"," ","r","e","q","u","i","r","e","d">>

MsgNotConfigured ==
    <<"P","i","n","e","c","o","n","e"," ","i","s"," ","n","o","t"," ","c",
      "o","n","f","i","g","u","r","e","d","."," ","P","l","e","a","s","e",
      " ","r","u","n"," ","n","p","m"," ","r","u","n"," ","s","e","t","u",
      "p",".">>

MsgSearchFailed ==
    <<"S","e","a","r","c","h"," ","f","a","i","l","e","d","."," ","P","l",
      "e","a","s","e"," ","t","r","y"," ","a","g","a","i","n",".">>

ErrMissingKey ==
    <<"P","I","N","E","C","O","N","E","_","A","P","I","_","K","E","Y"," ",
      "i","s"," ","n","o","t"," ","s","e","t">>

ErrFetchFailed ==
    <<"f","e","t","c","h"," ","f","a","i","l","e","d">>

ErrIndexNotFound ==
    <<"I","n","d","e","x"," ","d","e","c","o","u","p","l","e","d","-","s",
      "e","a","r","c","h"," ","n","o","t"," ","f","o","u","n","d"," ","(",
      "4","0","4",")">>

sFormUrlencoded ==
    <<"a","p","p","l","i","c","a","t","i","o","n","/","x","-","w","w","w",
      "-","f","o","r","m","-","u","r","l","e","n","c","o","d","e","d">>

ctForm ==
    <<"a","p","p","l","i","c","a","t","i","o","n","/","x","-","w","w","w",
      "-","f","o","r","m","-","u","r","l","e","n","c","o","d","e","d",";",
      " ","c","h","a","r","s","e","t","=","U","T","F","-","8">>

ctJson ==
    <<"a","p","p","l","i","c","a","t","i","o","n","/","j","s","o","n">>

sTen == <<"1","0">>

\* The environments: each variable unset (None) or set to a string.
Envs ==
    [ NEXT_PUBLIC_DEMO_MODE : {None, Some("true"), Some("1")},
      PINECONE_API_KEY : {None, Some("pc-key")},
      DRUPAL_BASE_URL : {None, Some("https://cms.example")},
      DRUPAL_CLIENT_ID : {None, Some("client")},
      DRUPAL_REVALIDATE_SECRET : {None, Some(<<>>), Some(<<"s","3">>)} ]

DefaultEnv ==
    [ NEXT_PUBLIC_DEMO_MODE |-> None, PINECONE_API_KEY |-> None,
      DRUPAL_BASE_URL |-> None, DRUPAL_CLIENT_ID |-> None,
      DRUPAL_REVALIDATE_SECRET |-> None ]

NoRequest ==
    [ method |-> "none", q |-> None, limit |-> None, contentType |-> None,
      bodyOk |-> TRUE, secret |-> None, slug |-> None, path |-> None,
      headerSecret |-> None ]

\* GET /api/search?q=..&limit=..
GetRequests ==
    { [NoRequest EXCEPT !.method = "GET", !.q = q, !.limit = l] :
        q \in {None, Some(<<>>), Some(<<" ">>), Some(sTypescript), Some(sDev)},
        l \in {None, Some(<<>>), Some(<<"1">>), Some(<<"0">>), Some(<<"-","1">>),
               Some(<<"a","b","c">>), Some(<<" ","2","x">>)} }

SecretValues == {None, Some(<<>>), Some(<<"s","3">>), Some(<<"b","a","d">>)}
SlugValues == {None, Some(<<>>), Some(<<"b","l","o","g">>), Some(<<"/","b","l","o","g">>)}
PathValues == {None, Some(<<"/","a","b","o","u","t">>)}
HeaderSecretValues == {None, Some(<<"s","3">>), Some(<<"b","a","d">>)}

\* POST /api/revalidate: the content type, whether the body parses, the
\* fields of the body and the x-revalidate-secret header.
PostRequests ==
    { [NoRequest EXCEPT !.method = "POST", !.contentType = ct, !.bodyOk = ok,
                        !.secret = se, !.slug = sl, !.path = pa,
                        !.headerSecret = hs] :
        ct \in {None, Some(ctForm), Some(ctJson)}, ok \in BOOLEAN,
        se \in SecretValues, sl \in SlugValues, pa \in PathValues,
        hs \in HeaderSecretValues }

NoResponse ==
    [ status |-> 0, error |-> None, query |-> None, results |-> <<>>,
      totalResults |-> None, message |-> None, revalidated |-> FALSE,
      path |-> None ]

JsonError(text, status) ==
    [NoResponse EXCEPT !.status = status, !.error = Some(text)]

\* Variant: totalResults counts the corpus.
JsonResults_CountsCorpus(query, results) ==
    [NoResponse EXCEPT !.status = 200, !.query = Some(query),
                       !.results = results, !.totalResults = Some(Len(articles))]

JsonResults(query, results) ==
    [NoResponse EXCEPT !.status = 200, !.query = Some(query),
                       !.results = results, !.totalResults = Some(Len(results))]

JsonMessage(text, status) ==
    [NoResponse EXCEPT !.status = status, !.message = Some(text)]

ApiIdle ==
    /\ req = NoRequest
    /\ resp = NoResponse
    /\ calls = <<>>
    /\ thrown = None
    /\ apiPc = "idle"

(***************************************************************************)
(* lib/demo-mode: isDemoMode.                                              *)
(***************************************************************************)
\* Variant: any value of the flag enables demo mode.
isDemoMode_Truthy(e) == ~IsNone(e.NEXT_PUBLIC_DEMO_MODE)

isDemoMode(e) == e.NEXT_PUBLIC_DEMO_MODE = Some("true")

(***************************************************************************)
(* lib/pinecone: searchArticles, as the specification describes it: it     *)
(* fails with the not-configured error when no API key is set, and with a  *)
(* key it returns the provider's matches or fails with a provider error.   *)
(***************************************************************************)
VectorResults ==
    { <<>>,
      <<[id |-> "a2", score |-> 9,
         article |-> CHOOSE a \in ArticlePool : a.id = "a2"]>> }

SearchArticlesOutcomes(e) ==
    IF IsNone(e.PINECONE_API_KEY)
    THEN { [ok |-> FALSE, results |-> <<>>, message |-> Some(ErrMissingKey)] }
    ELSE { [ok |-> TRUE, results |-> r, message |-> None] : r \in VectorResults }
         \cup
         { [ok |-> FALSE, results |-> <<>>, message |-> m] :
             m \in {None, Some(ErrFetchFailed), Some(ErrIndexNotFound)} }

(***************************************************************************)
(* app/api/search/route.ts: GET.                                           *)
(***************************************************************************)
\* !query
QueryMissing(q) == Falsy(q)

\* parseInt(searchParams.get('limit') || '10', 10)
LimitOf(param) ==
    ParseInt(IF Falsy(param) THEN sTen ELSE Val(param))

\* Variant: every error is answered 500.
SearchErrorResponse_AlwaysFailed(message) == JsonError(MsgSearchFailed, 500)

\* Variant: the 500 answer carries error.message.
SearchErrorResponse_Leaks(message) ==
    IF (IF IsNone(message) THEN FALSE ELSE Includes(Val(message), sPINECONE_API_KEY))
    THEN JsonError(MsgNotConfigured, 503)
    ELSE JsonError(IF IsNone(message) THEN MsgSearchFailed ELSE Val(message), 500)

\* The catch block: error.message?.includes('PINECONE_API_KEY') decides
\* between 503 and 500.
SearchErrorResponse(message) ==
    IF (IF IsNone(message) THEN FALSE ELSE Includes(Val(message), sPINECONE_API_KEY))
    THEN JsonError(MsgNotConfigured, 503)
    ELSE JsonError(MsgSearchFailed, 500)

ReceiveRequest(r) ==
    /\ apiPc = "idle"
    /\ req' = r

\* The request is answered 400 when q is missing or empty.
GET_Invalid ==
    \E r \in GetRequests :
        /\ ReceiveRequest(r)
        /\ QueryMissing(r.q)
        /\ resp' = JsonError(MsgQueryRequired, 400)
        /\ apiPc' = "done"
        /\ UNCHANGED <<env, calls, thrown, articles, msVars, ixVars, nzVars, uiVars>>

\* Demo mode: the request is answered from mockSearch.
GET_Demo ==
    \E r \in GetRequests :
        /\ ReceiveRequest(r)
        /\ ~QueryMissing(r.q)
        /\ isDemoMode(env)
        /\ calls' = <<[fn |-> "mockSearch", arg |-> Val(r.q)]>>
        /\ resp' = JsonResults(Val(r.q), mockSearch(articles, Val(r.q), LimitOf(r.limit)))
        /\ apiPc' = "done"
        /\ UNCHANGED <<env, thrown, articles, msVars, ixVars, nzVars, uiVars>>

\* Otherwise searchArticles is called and awaited.
GET_Search ==
    \E r \in GetRequests :
        /\ ReceiveRequest(r)
        /\ ~QueryMissing(r.q)
        /\ ~isDemoMode(env)
        /\ calls' = <<[fn |-> "searchArticles", arg |-> Val(r.q)]>>
        /\ apiPc' = "awaitSearch"
        /\ UNCHANGED <<env, resp, thrown, articles, msVars, ixVars, nzVars, uiVars>>

\* Variant: the backends are reached before q is looked at.
GET_Start_ValidateLast ==
    \E r \in GetRequests :
        /\ ReceiveRequest(r)
        /\ \/ /\ isDemoMode(env)
              /\ calls' = <<[fn |-> "mockSearch", arg |-> <<>>]>>
              /\ resp' = IF QueryMissing(r.q)
                         THEN JsonError(MsgQueryRequired, 400)
                         ELSE JsonResults(Val(r.q),
                                  mockSearch(articles, Val(r.q), LimitOf(r.limit)))
              /\ apiPc' = "done"
           \/ /\ ~isDemoMode(env)
              /\ calls' = <<[fn |-> "searchArticles", arg |-> <<>>]>>
              /\ resp' = resp
              /\ apiPc' = "awaitSearch"
        /\ UNCHANGED <<env, thrown, articles, msVars, ixVars, nzVars, uiVars>>

\* The handler up to its first await.
GET_Start == GET_Invalid \/ GET_Demo \/ GET_Search

\* searchArticles returned.
GET_SearchReturns ==
    \E o \in SearchArticlesOutcomes(env) :
        /\ apiPc = "awaitSearch"
        /\ o.ok
        /\ resp' = JsonResults(Val(req.q), o.results)
        /\ apiPc' = "done"
        /\ UNCHANGED <<env, req, calls, thrown, articles, msVars, ixVars, nzVars, uiVars>>

\* searchArticles threw.
GET_SearchThrows ==
    \E o \in SearchArticlesOutcomes(env) :
        /\ apiPc = "awaitSearch"
        /\ ~o.ok
        /\ thrown' = Some(o.message)
        /\ resp' = SearchErrorResponse(o.message)
        /\ apiPc' = "done"
        /\ UNCHANGED <<env, req, calls, articles, msVars, ixVars, nzVars, uiVars>>

(***************************************************************************)
(* app/api/revalidate/route.ts: POST.                                      *)
(***************************************************************************)
\* !expectedSecret
SecretNotConfigured(e) ==
    Falsy(e.DRUPAL_REVALIDATE_SECRET)

\* (request.headers.get('content-type') || '').includes(
\*     'application/x-www-form-urlencoded')
IsForm(r) ==
    Includes(IF IsNone(r.contentType) THEN <<>> ELSE Val(r.contentType),
             sFormUrlencoded)

\* a || b on optional strings: the empty string is falsy.
OrElse(a, b) == IF Falsy(a) THEN b ELSE a

\* request.json() rejects a body that is not JSON; formData() reads any
\* urlencoded body.
ParseThrows(r) == ~IsForm(r) /\ ~r.bodyOk

\* secret: the form field, or body.secret || the x-revalidate-secret header.
SecretOf(r) ==
    IF IsForm(r) THEN r.secret ELSE OrElse(r.secret, r.headerSecret)

\* slug: the form field, or body.slug || body.path.
SlugOf(r) ==
    IF IsForm(r) THEN r.slug ELSE OrElse(r.slug, r.path)

\* Variant: the slug is used as it comes.
PathOf_NoSlash(slug) ==
    IF Falsy(slug) THEN <<"/">> ELSE Val(slug)

\* slug ? (slug.startsWith('/') ? slug : `/${slug}`) : '/'
PathOf(slug) ==
    IF Falsy(slug) THEN <<"/">>
    ELSE IF StartsWith(Val(slug), <<"/">>) THEN Val(slug)
    ELSE <<"/">> \o Val(slug)

\* No secret on the server: 500 before the request is read.
POST_NotConfigured ==
    \E r \in PostRequests :
        /\ ReceiveRequest(r)
        /\ SecretNotConfigured(env)
        /\ resp' = JsonMessage("Revalidate secret not configured", 500)
        /\ apiPc' = "done"
        /\ UNCHANGED <<env, calls, thrown, articles, msVars, ixVars, nzVars, uiVars>>

\* The body does not parse: the catch block answers 500.
POST_ParseFails ==
    \E r \in PostRequests :
        /\ ReceiveRequest(r)
        /\ ~SecretNotConfigured(env)
        /\ ParseThrows(r)
        /\ resp' = JsonMessage("Revalidation failed", 500)
        /\ apiPc' = "done"
        /\ UNCHANGED <<env, calls, thrown, articles, msVars, ixVars, nzVars, uiVars>>

\* secret !== expectedSecret
POST_InvalidSecret ==
    \E r \in PostRequests :
        /\ ReceiveRequest(r)
        /\ ~SecretNotConfigured(env)
        /\ ~ParseThrows(r)
        /\ SecretOf(r) # env.DRUPAL_REVALIDATE_SECRET
        /\ resp' = JsonMessage("Invalid secret", 401)
        /\ apiPc' = "done"
        /\ UNCHANGED <<env, calls, thrown, articles, msVars, ixVars, nzVars, uiVars>>

\* revalidateTag('drupal'), revalidatePath(path), 200.
POST_Revalidate ==
    \E r \in PostRequests :
        /\ ReceiveRequest(r)
        /\ ~SecretNotConfigured(env)
        /\ ~ParseThrows(r)
        /\ SecretOf(r) = env.DRUPAL_REVALIDATE_SECRET
        /\ calls' = << [fn |-> "revalidateTag", arg |-> <<"d","r","u","p","a","l">>],
                       [fn |-> "revalidatePath", arg |-> PathOf(SlugOf(r))] >>
        /\ resp' = [NoResponse EXCEPT !.status = 200, !.revalidated = TRUE,
                                      !.path = Some(PathOf(SlugOf(r)))]
        /\ apiPc' = "done"
        /\ UNCHANGED <<env, thrown, articles, msVars, ixVars, nzVars, uiVars>>

POST == POST_NotConfigured \/ POST_ParseFails \/ POST_InvalidSecret \/ POST_Revalidate

(***************************************************************************)
(* scripts/index-content.ts: the content source, the vector provider and   *)
(* one run of main().                                                      *)
(***************************************************************************)
MaxArticles == 2

\* How many times the script is run, one run after the other.
MaxRuns == 2

\* The articles the content source may serve: n1 in two versions, n2, n3.
IxArticlePool ==
    { [id |-> "n1", title |-> "Alpha", slug |-> "alpha"],
      [id |-> "n1", title |-> "Alpha, revised", slug |-> "alpha"],
      [id |-> "n2", title |-> "Beta", slug |-> "beta"],
      [id |-> "n3", title |-> "Gamma", slug |-> "n3"] }

\* What fetchArticles can return: articles with pairwise distinct ids.
Snapshots ==
    { c \in UNION { [1..n -> IxArticlePool] : n \in 0..MaxArticles } :
        \A i, j \in 1..Len(c) : i # j => c[i].id # c[j].id }

\* generateEmbedding: the vector is a function of the text embedded, which
\* the title stands for here.
EmbeddingOf(article) == <<"vector of", article.title>>

\* The record main() upserts for an article.
RecordOf(article, embedding) ==
    [ id |-> article.id, values |-> embedding,
      metadata |-> [title |-> article.title, slug |-> article.slug] ]

\* Variant: a record is added next to the record of the same id.
Upsert_Append(records, rec) == records \cup {rec}

\* Variant: the record already stored under an id is kept.
Upsert_KeepFirst(records, rec) ==
    IF \E r \in records : r.id = rec.id THEN records ELSE records \cup {rec}

\* index.upsert: a record replaces the record of the same id.
Upsert(records, rec) == { r \in records : r.id # rec.id } \cup {rec}

\* What the index may hold before a run.
InitialStores ==
    { {},
      { RecordOf(a, EmbeddingOf(a)) : a \in { x \in IxArticlePool : x.title = "Alpha" } },
      { [ id |-> "n9", values |-> <<"vector of", "Removed">>,
          metadata |-> [title |-> "Removed", slug |-> "removed"] ] } }

IndexerEnvs ==
    { [DefaultEnv EXCEPT !.PINECONE_API_KEY = k, !.DRUPAL_BASE_URL = u,
                         !.DRUPAL_CLIENT_ID = c] :
        k \in {None, Some("pc-key")},
        u \in {None, Some("https://cms.example")},
        c \in {None, Some("client")} }

\* An environment with everything the script reads.
IndexerEnv ==
    [DefaultEnv EXCEPT !.PINECONE_API_KEY = Some("pc-key"),
                       !.DRUPAL_BASE_URL = Some("https://cms.example"),
                       !.DRUPAL_CLIENT_ID = Some("client")]

IndexerIdle ==
    /\ shouldReset = FALSE
    /\ snapshot = <<>>
    /\ indexState = "ready"
    /\ store = {}
    /\ ixPc = "start"
    /\ ixArticles = <<>>
    /\ ixI = 0
    /\ ixEmbedding = None
    /\ ixOps = <<>>
    /\ ixExit = None
    /\ ixError = None
    /\ ixClear = "none"
    /\ ixPending = {}
    /\ ixRun = 0
    /\ ixStart = {}
    /\ ixPrev = None

Op(name, id) == [op |-> name, id |-> id]

\* Variant: the error is logged and the loop goes on with the next article.
Fails_Continues(what) ==
    /\ ixPc' = "delay"
    /\ ixExit' = ixExit
    /\ ixError' = Some(what)

\* The catch block of main(): the error is logged and the process exits 1.
Fails(what) ==
    /\ ixPc' = "failed"
    /\ ixExit' = Some(1)
    /\ ixError' = Some(what)

\* fetchArticles and getAccessToken throw without the Drupal settings.
DrupalConfigured(e) == ~IsNone(e.DRUPAL_BASE_URL) /\ ~IsNone(e.DRUPAL_CLIENT_ID)

\* Variant: the --reset flag is ignored.
AfterEnsure_NoReset(reset) == "fetch"

\* Variant: the index is cleared in every run.
AfterEnsure_AlwaysClears(reset) == "deleteAll"

\* What follows ensureIndexExists: the reset, if requested, else the fetch.
AfterEnsure(reset) == IF reset THEN "deleteAll" ELSE "fetch"

\* main() up to the first await: without an API key it exits 1.
IX_Start ==
    /\ ixPc = "start"
    /\ IF IsNone(env.PINECONE_API_KEY)
       THEN ixPc' = "exited" /\ ixExit' = Some(1)
       ELSE ixPc' = "listIndexes" /\ ixExit' = ixExit
    /\ UNCHANGED <<shouldReset, snapshot, indexState, store, ixArticles, ixI,
                   ixEmbedding, ixOps, ixError, ixClear, ixPast, ixPending,
                   scorerVars, apiVars, nzVars, uiVars>>

\* ensureIndexExists: listIndexes, and whether the index is among them.
IX_ListIndexes ==
    /\ ixPc = "listIndexes"
    /\ ixOps' = Append(ixOps, Op("listIndexes", ""))
    /\ \/ /\ ixPc' = IF indexState = "absent" THEN "createIndex"
                     ELSE AfterEnsure(shouldReset)
          /\ UNCHANGED <<ixExit, ixError>>
       \/ Fails(Op("listIndexes", ""))
    /\ UNCHANGED <<shouldReset, snapshot, indexState, store, ixArticles, ixI,
                   ixEmbedding, ixClear, ixPast, ixPending,
                   scorerVars, apiVars, nzVars, uiVars>>

\* ensureIndexExists: createIndex.
IX_CreateIndex ==
    /\ ixPc = "createIndex"
    /\ ixOps' = Append(ixOps, Op("createIndex", ""))
    /\ \/ /\ indexState' = "initializing"
          /\ ixPc' = "waitReady"
          /\ UNCHANGED <<ixExit, ixError>>
       \/ Fails(Op("createIndex", "")) /\ indexState' = indexState
    /\ UNCHANGED <<shouldReset, snapshot, store, ixArticles, ixI, ixEmbedding,
                   ixClear, ixPast, ixPending,
                   scorerVars, apiVars, nzVars, uiVars>>

\* Variant: the run goes on only once the index reports ready.
IX_WaitReady_Polls ==
    /\ ixPc = "waitReady"
    /\ indexState = "ready"
    /\ ixPc' = AfterEnsure(shouldReset)
    /\ UNCHANGED <<shouldReset, snapshot, indexState, store, ixArticles, ixI,
                   ixEmbedding, ixOps, ixExit, ixError, ixClear, ixPast, ixPending,
                   scorerVars, apiVars, nzVars, uiVars>>

\* ensureIndexExists: the 30 s timer fires.
IX_WaitReady ==
    /\ ixPc = "waitReady"
    /\ ixPc' = AfterEnsure(shouldReset)
    /\ UNCHANGED <<shouldReset, snapshot, indexState, store, ixArticles, ixI,
                   ixEmbedding, ixOps, ixExit, ixError, ixClear, ixPast, ixPending,
                   scorerVars, apiVars, nzVars, uiVars>>

\* The provider finishes creating the index.
ProviderIndexReady ==
    /\ indexState = "initializing"
    /\ indexState' = "ready"
    /\ UNCHANGED <<shouldReset, snapshot, store, ixPc, ixArticles, ixI,
                   ixEmbedding, ixOps, ixExit, ixError, ixClear, ixPast, ixPending,
                   scorerVars, apiVars, nzVars, uiVars>>

\* How index.deleteAll() can end: the records are gone ("cleared"), or it
\* throws, with a message that has 'empty' in it ("empty", the index holds
\* nothing to delete) or with another one ("other").
DeleteAllOutcomes ==
    (IF indexState = "ready" THEN {"cleared"} ELSE {})
      \cup (IF indexState = "ready" /\ store = {} THEN {"empty"} ELSE {})
      \cup {"other"}

\* Variant: an error of deleteAll reaches the catch block of main().
IX_DeleteAll_Fatal ==
    /\ ixPc = "deleteAll"
    /\ ixOps' = Append(ixOps, Op("deleteAll", ""))
    /\ \E outcome \in DeleteAllOutcomes :
          /\ ixClear' = outcome
          /\ IF outcome = "cleared"
             THEN store' = {} /\ ixPc' = "fetch" /\ UNCHANGED <<ixExit, ixError>>
             ELSE store' = store /\ Fails(Op("deleteAll", ""))
    /\ UNCHANGED <<shouldReset, snapshot, indexState, ixArticles, ixI,
                   ixEmbedding, ixPast, ixPending,
                   scorerVars, apiVars, nzVars, uiVars>>

\* index.deleteAll(): whatever it throws is caught (a note is logged unless
\* the message has 'empty' in it) and the run goes on.
IX_DeleteAll ==
    /\ ixPc = "deleteAll"
    /\ ixOps' = Append(ixOps, Op("deleteAll", ""))
    /\ \E outcome \in DeleteAllOutcomes :
          /\ ixClear' = outcome
          /\ store' = IF outcome = "cleared" THEN {} ELSE store
    /\ ixPc' = "fetch"
    /\ UNCHANGED <<shouldReset, snapshot, indexState, ixArticles, ixI,
                   ixEmbedding, ixExit, ixError, ixPast, ixPending,
                   scorerVars, apiVars, nzVars, uiVars>>

\* fetchArticles: no article ends the run with exit code 0.
IX_Fetch ==
    /\ ixPc = "fetch"
    /\ ixOps' = Append(ixOps, Op("fetchArticles", ""))
    /\ \/ /\ DrupalConfigured(env)
          /\ ixArticles' = snapshot
          /\ IF snapshot = <<>>
             THEN ixPc' = "exited" /\ ixExit' = Some(0) /\ ixI' = ixI
             ELSE ixPc' = "embed" /\ ixExit' = ixExit /\ ixI' = 1
          /\ ixError' = ixError
       \/ Fails(Op("fetchArticles", "")) /\ UNCHANGED <<ixArticles, ixI>>
    /\ UNCHANGED <<shouldReset, snapshot, indexState, store, ixEmbedding,
                   ixClear, ixPast, ixPending,
                   scorerVars, apiVars, nzVars, uiVars>>

\* generateEmbedding for articles[i]: the request is sent and awaited.
IX_Embed ==
    /\ ixPc = "embed"
    /\ ixOps' = Append(ixOps, Op("embed", ixArticles[ixI].id))
    /\ ixPending' = ixPending \cup {Op("embed", ixArticles[ixI].id)}
    /\ ixPc' = "embedding"
    /\ UNCHANGED <<shouldReset, snapshot, indexState, store, ixArticles, ixI,
                   ixEmbedding, ixExit, ixError, ixClear, ixPast,
                   scorerVars, apiVars, nzVars, uiVars>>

\* The embedding request settles: main() goes on with the vector, or the
\* error reaches the catch block.
IX_EmbedSettles ==
    /\ ixPc = "embedding"
    /\ ixPending' = ixPending \ {Op("embed", ixArticles[ixI].id)}
    /\ \/ /\ ixEmbedding' = Some(EmbeddingOf(ixArticles[ixI]))
          /\ ixPc' = "upsert"
          /\ UNCHANGED <<ixExit, ixError>>
       \/ Fails(Op("embed", ixArticles[ixI].id)) /\ ixEmbedding' = ixEmbedding
    /\ UNCHANGED <<shouldReset, snapshot, indexState, store, ixArticles, ixI,
                   ixOps, ixClear, ixPast,
                   scorerVars, apiVars, nzVars, uiVars>>

\* index.upsert for articles[i]: the request is sent and awaited.
IX_Upsert ==
    /\ ixPc = "upsert"
    /\ ixOps' = Append(ixOps, Op("upsert", ixArticles[ixI].id))
    /\ ixPending' = ixPending \cup {Op("upsert", ixArticles[ixI].id)}
    /\ ixPc' = "upserting"
    /\ UNCHANGED <<shouldReset, snapshot, indexState, store, ixArticles, ixI,
                   ixEmbedding, ixExit, ixError, ixClear, ixPast,
                   scorerVars, apiVars, nzVars, uiVars>>

\* Variant: the next article is taken up as soon as the upsert has settled.
IX_UpsertSettles_NoDelay ==
    /\ ixPc = "upserting"
    /\ ixPending' = ixPending \ {Op("upsert", ixArticles[ixI].id)}
    /\ \/ /\ indexState = "ready"
          /\ store' = Upsert(store, RecordOf(ixArticles[ixI], Val(ixEmbedding)))
          /\ IF ixI < Len(ixArticles)
             THEN ixI' = ixI + 1 /\ ixPc' = "embed"
             ELSE ixI' = ixI /\ ixPc' = "done"
          /\ UNCHANGED <<ixExit, ixError>>
       \/ Fails(Op("upsert", ixArticles[ixI].id)) /\ UNCHANGED <<store, ixI>>
    /\ UNCHANGED <<shouldReset, snapshot, indexState, ixArticles, ixEmbedding,
                   ixOps, ixClear, ixPast,
                   scorerVars, apiVars, nzVars, uiVars>>

\* The upsert settles: the record is in the index and main() goes on to the
\* delay, or the error reaches the catch block.
IX_UpsertSettles ==
    /\ ixPc = "upserting"
    /\ ixPending' = ixPending \ {Op("upsert", ixArticles[ixI].id)}
    /\ \/ /\ indexState = "ready"
          /\ store' = Upsert(store, RecordOf(ixArticles[ixI], Val(ixEmbedding)))
          /\ ixPc' = "delay"
          /\ UNCHANGED <<ixExit, ixError>>
       \/ Fails(Op("upsert", ixArticles[ixI].id)) /\ store' = store
    /\ UNCHANGED <<shouldReset, snapshot, indexState, ixArticles, ixI, ixEmbedding,
                   ixOps, ixClear, ixPast,
                   scorerVars, apiVars, nzVars, uiVars>>

\* The 100 ms timer fires; the loop goes to the next article or ends.
IX_Delay ==
    /\ ixPc = "delay"
    /\ IF ixI < Len(ixArticles)
       THEN ixI' = ixI + 1 /\ ixPc' = "embed"
       ELSE ixI' = ixI /\ ixPc' = "done"
    /\ UNCHANGED <<shouldReset, snapshot, indexState, store, ixArticles,
                   ixEmbedding, ixOps, ixExit, ixError, ixClear, ixPast, ixPending,
                   scorerVars, apiVars, nzVars, uiVars>>

\* What is kept of a run that ended, for the run after it.
RunSummary ==
    [ articles |-> ixArticles, error |-> ixError, failedAt |-> ixI,
      outcome |-> ixPc, cleared |-> (ixClear = "cleared"), before |-> ixStart,
      after |-> store ]

\* The content source at a later run: the same articles, some of them edited.
EditedSnapshots(c) ==
    { d \in Snapshots :
        /\ Len(d) = Len(c)
        /\ \A i \in 1..Len(c) : d[i].id = c[i].id }

\* The script is run again after a run ended, with or without --reset; the
\* articles may have been edited in between.
IX_Rerun ==
    /\ ixPc \in {"done", "failed", "exited"}
    /\ ixRun < MaxRuns
    /\ ixRun' = ixRun + 1
    /\ ixPrev' = Some(RunSummary)
    /\ ixStart' = store
    /\ shouldReset' \in BOOLEAN
    /\ snapshot' \in EditedSnapshots(snapshot)
    /\ ixPc' = "start"
    /\ ixArticles' = <<>>
    /\ ixI' = 0
    /\ ixEmbedding' = None
    /\ ixOps' = <<>>
    /\ ixExit' = None
    /\ ixError' = None
    /\ ixClear' = "none"
    /\ ixPending' = {}
    /\ UNCHANGED <<indexState, store, scorerVars, apiVars, nzVars, uiVars>>

(***************************************************************************)
(* The normalizer: the mapping of the raw nodes to articles at the end of  *)
(* fetchArticles (transformArticle in the README has the same slug rule).  *)
(***************************************************************************)
MaxNodes == 2

sArticlesPrefix == <<"/","a","r","t","i","c","l","e","s","/">>
sAlpha == <<"a","l","p","h","a">>
sBlogBeta == <<"/","b","l","o","g","/","b","e","t","a">>

\* The ids of the raw nodes.
NodeIds == { <<"n","1">>, <<"n","2">> }

\* The path field of a raw node: absent, or a string.
NodePaths ==
    { None, Some(<<>>), Some(sArticlesPrefix), Some(sArticlesPrefix \o sAlpha),
      Some(sAlpha), Some(sArticlesPrefix \o <<"n","2">>), Some(sBlogBeta) }

\* String.prototype.split(','): the pieces between the commas.
RECURSIVE SplitComma(_)
SplitComma(s) ==
    IF \A i \in 1..Len(s) : s[i] # "," THEN <<s>>
    ELSE LET i == CHOOSE k \in 1..Len(s) :
                      s[k] = "," /\ \A m \in 1..(k - 1) : s[m] # ","
         IN <<SubSeq(s, 1, i - 1)>> \o SplitComma(SubSeq(s, i + 1, Len(s)))

sGeneral == <<"G","e","n","e","r","a","l">>
sFiveMinRead == <<"5"," ","m","i","n"," ","r","e","a","d">>
sNews == <<"N","e","w","s">>
sTagsABC == <<"a",","," ","b"," ",","," ","c">>

\* new Date().toISOString(): the time of the call, one value here.
sNow == <<"n","o","w">>

\* The tags field of a raw node: absent, or a string.
NodeTags ==
    { None, Some(<<>>), Some(sTagsABC), Some(<<"x">>),
      Some(<<"a",",",",","b">>), Some(<<" ","a","\t",","," ">>) }

\* The category field of a raw node: absent or null, or a string.
NodeCategories == { None, Some(<<>>), Some(sNews) }

\* The image field of a raw node.
NodeImages ==
    { None,
      Some([url |-> <<"u">>, alt |-> None, width |-> None, height |-> None]),
      Some([url |-> <<"u">>, alt |-> Some(<<"A">>), width |-> Some(800),
            height |-> Some(600)]) }

\* A raw node.  body, summary and created stand for body?.processed,
\* summary?.value and created?.time; nonStrings names the fields among path
\* and tags whose value is present and truthy but is not a string (an array,
\* a number, an object), and the string given for such a field is not used.
RawNode(i, pth, bdy, smr, cat, tgs, rdt, crt, img, nonStr) ==
    [ id |-> i, title |-> <<"T">>, path |-> pth, body |-> bdy, summary |-> smr,
      category |-> cat, tags |-> tgs, readTime |-> rdt, created |-> crt,
      image |-> img, nonStrings |-> nonStr ]

RawNodes ==
    { RawNode(i, pth, None, None, None, None, None, None, None, nonStr) :
        i \in NodeIds, pth \in NodePaths, nonStr \in { {}, {"tags"} } }

\* data.data.nodeArticles.nodes: raw nodes with pairwise distinct ids.
RawSnapshots ==
    { c \in UNION { [1..n -> RawNodes] : n \in 0..MaxNodes } :
        \A i, j \in 1..Len(c) : i # j => c[i].id # c[j].id }

\* String.prototype.replace(/^\/articles\//, ''): the prefix is cut off a
\* string that starts with it, any other string is left as it is.
StripArticlesPrefix(s) ==
    IF StartsWith(s, sArticlesPrefix)
    THEN SubSeq(s, Len(sArticlesPrefix) + 1, Len(s))
    ELSE s

\* node.path?.replace(/^\/articles\//, '') || node.id
ArticleSlug(node) ==
    IF IsNone(node.path) THEN node.id
    ELSE IF StripArticlesPrefix(Val(node.path)) = <<>> THEN node.id
    ELSE StripArticlesPrefix(Val(node.path))

\* value || fallback, for a string or an absent value.
StringOr(o, fallback) == IF Falsy(o) THEN fallback ELSE Val(o)

\* Variant: only an absent category gets the default.
ArticleCategory_KeepsEmpty(node) ==
    IF IsNone(node.category) THEN sGeneral ELSE Val(node.category)

\* node.category || 'General'
ArticleCategory(node) == StringOr(node.category, sGeneral)

\* Variant: the pieces are not trimmed.
TrimTag_Untrimmed(t) == t

\* (t: string) => t.trim()
TrimTag(t) == Trim(t)

\* node.tags ? node.tags.split(',').map((t) => t.trim()) : []
ArticleTags(node) ==
    IF Falsy(node.tags) THEN <<>>
    ELSE LET pieces == SplitComma(Val(node.tags))
         IN [k \in 1..Len(pieces) |-> TrimTag(pieces[k])]

\* node.image ? { url, alt: node.image.alt || node.title } : undefined
ArticleImage(node) ==
    IF IsNone(node.image) THEN None
    ELSE Some([url |-> Val(node.image).url,
               alt |-> StringOr(Val(node.image).alt, node.title)])

\* The mapping calls replace on the path and split on the tags: a value
\* without that method makes it throw a TypeError.
MappingThrows(node) ==
    "path" \in node.nonStrings \/ "tags" \in node.nonStrings

\* The article made of a raw node.
NormalizeNode(node) ==
    [ id |-> node.id, title |-> node.title, slug |-> ArticleSlug(node),
      body |-> StringOr(node.body, <<>>),
      summary |-> StringOr(node.summary, <<>>),
      category |-> ArticleCategory(node),
      tags |-> ArticleTags(node),
      readTime |-> StringOr(node.readTime, sFiveMinRead),
      publishedAt |-> StringOr(node.created, sNow),
      image |-> ArticleImage(node) ]

NormalizerIdle ==
    /\ nzNodes = <<>>
    /\ nzArticles = <<>>
    /\ nzPc = "idle"
    /\ taNode = None
    /\ taResult = [state |-> "none", value |-> None]

\* nodes.map(...) of fetchArticles: an error of the mapping of one node ends
\* fetchArticles without a result.
NZ_MapNodes ==
    /\ nzPc = "raw"
    /\ IF \E i \in 1..Len(nzNodes) : MappingThrows(nzNodes[i])
       THEN nzArticles' = nzArticles /\ nzPc' = "threw"
       ELSE /\ nzArticles' = [i \in 1..Len(nzNodes) |-> NormalizeNode(nzNodes[i])]
            /\ nzPc' = "done"
    /\ UNCHANGED <<nzNodes, taNode, taResult, scorerVars, apiVars, ixVars, uiVars>>

\* The raw nodes transformArticle is called with.
TransformNodes ==
    { RawNode(<<"n","1">>, pth, bdy, smr, cat, tgs, rdt, crt, img, nonStr) :
        pth \in { None, Some(sArticlesPrefix), Some(sArticlesPrefix \o sAlpha) },
        bdy \in { None, Some(<<"<","p",">">>) },
        smr \in { None, Some(<<"s">>) },
        cat \in NodeCategories,
        tgs \in NodeTags,
        rdt \in { None, Some(<<"2"," ","m","i","n">>) },
        crt \in { None, Some(<<"2","0","2","4">>) },
        img \in NodeImages,
        nonStr \in SUBSET {"path", "tags"} }

\* value || fallback, for a number or an absent value.
NumberOr(o, fallback) ==
    IF IsNone(o) THEN fallback ELSE IF Val(o) = 0 THEN fallback ELSE Val(o)

DefaultImageWidth == 1200
DefaultImageHeight == 630

\* The image of transformArticle, which has a width and a height as well.
TransformedImage(node) ==
    IF IsNone(node.image) THEN None
    ELSE Some([url |-> Val(node.image).url,
               alt |-> StringOr(Val(node.image).alt, node.title),
               width |-> NumberOr(Val(node.image).width, DefaultImageWidth),
               height |-> NumberOr(Val(node.image).height, DefaultImageHeight)])

\* transformArticle(node): null for no node, else the article, unless the
\* mapping throws.
transformArticle(node) ==
    IF IsNone(node) THEN [state |-> "returned", value |-> None]
    ELSE IF MappingThrows(Val(node)) THEN [state |-> "threw", value |-> None]
    ELSE [state |-> "returned",
          value |-> Some([NormalizeNode(Val(node)) EXCEPT
                              !.image = TransformedImage(Val(node))])]

\* One call of transformArticle.
TA_Call ==
    /\ taResult.state = "none"
    /\ taResult' = transformArticle(taNode)
    /\ UNCHANGED <<taNode, nzNodes, nzArticles, nzPc, scorerVars, apiVars, ixVars, uiVars>>

(***************************************************************************)
(* The HTTP handlers: one request against a configured server.  The search *)
(* route is run in every environment; the revalidation route reads the     *)
(* revalidation secret only.                                               *)
(***************************************************************************)
DemoCorpus ==
    TypeScriptGuideCorpus \o <<CHOOSE a \in ArticlePool : a.id = "a2">>

(***************************************************************************)
(* The search page (SearchResultsWithParams).  Time is counted in          *)
(* milliseconds since the debounce timer was last set and is not counted   *)
(* beyond the delay of the timer.  A request to /api/search is answered by *)
(* the server at any later moment, in any order with the other requests.   *)
(***************************************************************************)
MaxRequests == 3
MaxChanges == 2

\* The delay of setTimeout in the debounce effect.
DebounceMs == 300

\* The steps in which time passes.
Delays == {100, 200, 300}

\* The texts the user types and the q parameter the page is opened with.
PageQueries == { <<>>, <<" ">>, sTs, sDev }

\* The result lists the server answers with (ids of articles).
ResultLists == { <<>>, <<"a1">>, <<"a2", "a1">> }

\* How a request ends: response.ok with data.results; a response that is
\* not ok, with or without data.error; fetch or response.json() rejecting
\* with an Error, with or without a message.
Outcomes ==
    { [kind |-> "ok", results |-> r, error |-> None] : r \in ResultLists }
    \cup { [kind |-> "notOk", results |-> <<>>, error |-> e] :
             e \in {None, Some("Search failed. Please try again.")} }
    \cup { [kind |-> "rejected", results |-> <<>>, error |-> e] :
             e \in {None, Some("Failed to fetch")} }

\* a || b for an error message.
MessageOr(o, fallback) == IF IsNone(o) THEN fallback ELSE Val(o)

\* The state set by search for a blank query and by handleClear.
ClearedState ==
    [results |-> <<>>, isLoading |-> FALSE, error |-> None, hasSearched |-> FALSE]

\* useState(...) of the first render.
InitialState(initialQuery) ==
    [results |-> <<>>, isLoading |-> initialQuery # <<>>, error |-> None,
     hasSearched |-> FALSE]

\* searchParams.get('q') || ''
InitialQuery(url) == StringOr(url, <<>>)

\* The state search sets when the request ended.
StateAfter(o) ==
    IF o.kind = "ok"
    THEN [results |-> o.results, isLoading |-> FALSE, error |-> None,
          hasSearched |-> TRUE]
    ELSE [results |-> <<>>, isLoading |-> FALSE,
          error |-> Some(MessageOr(o.error,
                      IF o.kind = "notOk" THEN "Search failed"
                      ELSE "Search failed. Please try again.")),
          hasSearched |-> TRUE]

SearchPageIdle ==
    /\ uiPc = "idle"
    /\ uiUrl = None
    /\ uiQuery = <<>>
    /\ uiState = ClearedState
    /\ uiTimer = None
    /\ uiElapsed = 0
    /\ uiRequests = <<>>
    /\ uiChanges = 0
    /\ uiReset = FALSE

\* search(searchQuery) up to its await: a blank query resets the state and
\* sends nothing; any other query sets isLoading and sends the request.
search(searchQuery) ==
    IF Trim(searchQuery) = <<>>
    THEN /\ uiState' = ClearedState
         /\ uiRequests' = uiRequests
         /\ uiReset' = TRUE
    ELSE /\ Len(uiRequests) < MaxRequests
         /\ uiState' = [uiState EXCEPT !.isLoading = TRUE, !.error = None]
         /\ uiRequests' = Append(uiRequests,
                [q |-> searchQuery, change |-> uiChanges, waited |-> uiElapsed,
                 outcome |-> None])
         /\ uiReset' = FALSE

\* The effect that runs once on mount.
MountSearch(initialQuery) ==
    IF initialQuery # <<>>
    THEN search(initialQuery)
    ELSE UNCHANGED <<uiState, uiRequests, uiReset>>

\* The effects of the first render: the debounce effect sets its timer, then
\* the mount effect searches for a non-empty initial query.
UI_Mount ==
    /\ uiPc = "rendered"
    /\ uiPc' = "mounted"
    /\ uiTimer' = Some(uiQuery)
    /\ uiElapsed' = 0
    /\ MountSearch(InitialQuery(uiUrl))
    /\ UNCHANGED <<uiUrl, uiQuery, uiChanges>>
    /\ UNCHANGED <<scorerVars, apiVars, ixVars, nzVars>>

\* handleQueryChange(newQuery) with a new text: the query and the address
\* bar are updated; the re-render clears the timer of the debounce effect
\* and sets a new one.
UI_QueryChange ==
    /\ uiPc = "mounted"
    /\ uiChanges < MaxChanges
    /\ \E newQuery \in PageQueries \ {uiQuery} :
          /\ uiQuery' = newQuery
          /\ uiUrl' = IF newQuery # <<>> THEN Some(newQuery) ELSE None
          /\ uiTimer' = Some(newQuery)
    /\ uiElapsed' = 0
    /\ uiChanges' = uiChanges + 1
    /\ UNCHANGED <<uiPc, uiState, uiRequests, uiReset>>
    /\ UNCHANGED <<scorerVars, apiVars, ixVars, nzVars>>

\* handleClear: the query becomes empty, the state is reset and the address
\* bar loses its parameter; the debounce effect runs again only if the query
\* was not empty already.
UI_Clear ==
    /\ uiPc = "mounted"
    /\ uiChanges < MaxChanges
    /\ uiQuery' = <<>>
    /\ uiState' = ClearedState
    /\ uiUrl' = None
    /\ uiReset' = TRUE
    /\ IF uiQuery # <<>>
       THEN uiTimer' = Some(<<>>) /\ uiElapsed' = 0 /\ uiChanges' = uiChanges + 1
       ELSE UNCHANGED <<uiTimer, uiElapsed, uiChanges>>
    /\ UNCHANGED <<uiPc, uiRequests>>
    /\ UNCHANGED <<scorerVars, apiVars, ixVars, nzVars>>

\* Time passes while the timer is pending.
UI_Tick ==
    /\ uiPc = "mounted"
    /\ uiElapsed < DebounceMs
    /\ \E d \in Delays :
          uiElapsed' = IF uiElapsed + d < DebounceMs THEN uiElapsed + d
                       ELSE DebounceMs
    /\ UNCHANGED <<uiPc, uiUrl, uiQuery, uiState, uiTimer, uiRequests,
                   uiChanges, uiReset>>
    /\ UNCHANGED <<scorerVars, apiVars, ixVars, nzVars>>

\* The timer is due when its delay has passed.
TimerDue == uiElapsed >= DebounceMs

\* The callback of the debounce timer: search(query) with the query of the
\* render that set the timer.
UI_TimerFires ==
    /\ uiPc = "mounted"
    /\ ~IsNone(uiTimer)
    /\ TimerDue
    /\ search(Val(uiTimer))
    /\ uiTimer' = None
    /\ UNCHANGED <<uiPc, uiUrl, uiQuery, uiElapsed, uiChanges>>
    /\ UNCHANGED <<scorerVars, apiVars, ixVars, nzVars>>

\* search after its await: the answer to one of the requests arrives and the
\* state is set from it.
UI_Response ==
    /\ uiPc = "mounted"
    /\ \E n \in 1..Len(uiRequests) : \E o \in Outcomes :
          /\ IsNone(uiRequests[n].outcome)
          /\ uiRequests' = [uiRequests EXCEPT ![n].outcome = Some(o)]
          /\ uiState' = StateAfter(o)
    /\ UNCHANGED <<uiPc, uiUrl, uiQuery, uiTimer, uiElapsed, uiChanges, uiReset>>
    /\ UNCHANGED <<scorerVars, apiVars, ixVars, nzVars>>

ScorerIdle ==
    /\ msQuery = <<>>
    /\ msLimit = Num(10)
    /\ msScored = <<>>
    /\ msResults = <<>>
    /\ msCalls = 0
    /\ msFirst = None

SearchInit ==
    /\ env \in Envs
    /\ ApiIdle
    /\ articles = DemoCorpus
    /\ ScorerIdle
    /\ NormalizerIdle
    /\ SearchPageIdle
    /\ IndexerIdle

SearchNext == GET_Start \/ GET_SearchReturns \/ GET_SearchThrows

SpecSearch == SearchInit /\ [][SearchNext]_<<scorerVars, apiVars, ixVars, nzVars, uiVars>>

RevalidateInit ==
    /\ env \in { e \in Envs : \A k \in DOMAIN e :
                    k # "DRUPAL_REVALIDATE_SECRET" => e[k] = DefaultEnv[k] }
    /\ ApiIdle
    /\ articles = DemoCorpus
    /\ ScorerIdle
    /\ NormalizerIdle
    /\ SearchPageIdle
    /\ IndexerIdle

RevalidateNext == POST

SpecRevalidate == RevalidateInit /\ [][RevalidateNext]_<<scorerVars, apiVars, ixVars, nzVars, uiVars>>

(***************************************************************************)
(* One run of the indexer against a content snapshot and an index.         *)
(***************************************************************************)
IndexerInit ==
    /\ env \in IndexerEnvs
    /\ ApiIdle
    /\ articles = DemoCorpus
    /\ ScorerIdle
    /\ NormalizerIdle
    /\ SearchPageIdle
    /\ shouldReset \in BOOLEAN
    /\ snapshot \in Snapshots
    /\ indexState \in {"absent", "ready"}
    /\ store \in InitialStores
    /\ ixPc = "start"
    /\ ixArticles = <<>>
    /\ ixI = 0
    /\ ixEmbedding = None
    /\ ixOps = <<>>
    /\ ixExit = None
    /\ ixError = None
    /\ ixClear = "none"
    /\ ixPending = {}
    /\ ixRun = 1
    /\ ixStart = store
    /\ ixPrev = None

IndexerNext ==
    \/ IX_Start
    \/ IX_ListIndexes
    \/ IX_CreateIndex
    \/ IX_WaitReady
    \/ ProviderIndexReady
    \/ IX_DeleteAll
    \/ IX_Fetch
    \/ IX_Embed
    \/ IX_EmbedSettles
    \/ IX_Upsert
    \/ IX_UpsertSettles
    \/ IX_Delay

SpecIndexer == IndexerInit /\ [][IndexerNext]_<<scorerVars, apiVars, ixVars, nzVars, uiVars>>

\* One run in which the timer of the readiness wait fires in the end.
SpecIndexerLive ==
    SpecIndexer /\ WF_<<scorerVars, apiVars, ixVars, nzVars, uiVars>>(IX_WaitReady)

\* The script run up to MaxRuns times against one index, fully configured.
ReindexInit ==
    /\ env = IndexerEnv
    /\ ApiIdle
    /\ articles = DemoCorpus
    /\ ScorerIdle
    /\ NormalizerIdle
    /\ SearchPageIdle
    /\ shouldReset \in BOOLEAN
    /\ snapshot \in Snapshots
    /\ indexState \in {"absent", "ready"}
    /\ store \in InitialStores
    /\ ixPc = "start"
    /\ ixArticles = <<>>
    /\ ixI = 0
    /\ ixEmbedding = None
    /\ ixOps = <<>>
    /\ ixExit = None
    /\ ixError = None
    /\ ixClear = "none"
    /\ ixPending = {}
    /\ ixRun = 1
    /\ ixStart = store
    /\ ixPrev = None

ReindexNext ==
    \/ IX_Start
    \/ IX_ListIndexes
    \/ IX_CreateIndex
    \/ IX_WaitReady
    \/ ProviderIndexReady
    \/ IX_DeleteAll
    \/ IX_Fetch
    \/ IX_Embed
    \/ IX_EmbedSettles
    \/ IX_Upsert
    \/ IX_UpsertSettles
    \/ IX_Delay
    \/ IX_Rerun

SpecReindex == ReindexInit /\ [][ReindexNext]_<<scorerVars, apiVars, ixVars, nzVars, uiVars>>

(***************************************************************************)
(* The scorer called directly: one call of mockSearch on a loaded corpus.  *)
(***************************************************************************)
ScorerInit ==
    /\ env = DefaultEnv
    /\ ApiIdle
    /\ articles \in Corpora
    /\ ScorerIdle
    /\ NormalizerIdle
    /\ SearchPageIdle
    /\ IndexerIdle

\* Variant: the sort is applied to the corpus itself.
CorpusAfterCall_SortedInPlace(corpus, query) ==
    LET sorted == SortByScore(Scored(corpus, query))
    IN [i \in 1..Len(corpus) |-> sorted[i].article]

\* What a call leaves of the corpus: map and filter build new arrays and the
\* sort is applied to the array filter returned, so the corpus stays as it is.
CorpusAfterCall(corpus, query) == corpus

\* One call mockSearch(query, limit).
MockSearchCall(query, limit) ==
    /\ msQuery' = query
    /\ msLimit' = limit
    /\ msScored' = Scored(articles, query)
    /\ msResults' = mockSearch(articles, query, limit)
    /\ msCalls' = msCalls + 1
    /\ msFirst' = IF msCalls = 0
                  THEN Some([query |-> query, limit |-> limit,
                             results |-> mockSearch(articles, query, limit),
                             others |-> FALSE])
                  ELSE IF Val(msFirst).query = query /\ Val(msFirst).limit = limit
                  THEN msFirst
                  ELSE Some([Val(msFirst) EXCEPT !.others = TRUE])
    /\ articles' = CorpusAfterCall(articles, query)

CallMockSearch ==
    \E query \in Queries, limit \in Limits :
        /\ msCalls = 0
        /\ MockSearchCall(query, limit)
        /\ UNCHANGED <<apiVars, ixVars, nzVars, uiVars>>

ScorerNext == CallMockSearch

SpecScorer == ScorerInit /\ [][ScorerNext]_<<scorerVars, apiVars, ixVars, nzVars, uiVars>>

\* Several calls in a row on one corpus.
MaxCalls == 3

RepeatQueries == { sTypescript, sDev, sTs, sTypeScriptGuide }

RepeatLimits == { Num(1), Num(10) }

RepeatMockSearch ==
    \E query \in RepeatQueries, limit \in RepeatLimits :
        /\ msCalls < MaxCalls
        /\ MockSearchCall(query, limit)
        /\ UNCHANGED <<apiVars, ixVars, nzVars, uiVars>>

RepeatNext == RepeatMockSearch

SpecRepeat == ScorerInit /\ [][RepeatNext]_<<scorerVars, apiVars, ixVars, nzVars, uiVars>>

(***************************************************************************)
(* Claims about the scorer.                                                *)
(***************************************************************************)
TheCall == msCalls = 1

\* The tokens of a query, as the places they occupy: the maximal runs of
\* characters that are not whitespace.
TokenSpans(q) ==
    { sp \in (1..Len(q)) \X (1..Len(q)) :
        /\ sp[1] <= sp[2]
        /\ \A m \in sp[1]..sp[2] : ~IsSpace(q[m])
        /\ (sp[1] = 1 \/ IsSpace(q[sp[1] - 1]))
        /\ (sp[2] = Len(q) \/ IsSpace(q[sp[2] + 1])) }

RECURSIVE TokenSum(_, _, _, _)
TokenSum(spans, q, text, title) ==
    IF spans = {} THEN 0
    ELSE LET sp == CHOOSE x \in spans : TRUE
             t == SubSeq(q, sp[1], sp[2])
             here == IF Len(t) > 2 /\ Includes(text, t)
                     THEN 1 + (IF Includes(title, t) THEN 2 ELSE 0)
                     ELSE 0
         IN here + TokenSum(spans \ {sp}, q, text, title)

\* P + the sum over the tokens, before the cap.
UncappedScore(article, query) ==
    LET q == ToLowerCase(query)
        text == SearchableContent(article)
    IN (IF Includes(text, q) THEN 5 ELSE 0)
         + TokenSum(TokenSpans(q), q, text, ToLowerCase(article.title))

\* C1: for every query and every article of the corpus, the score computed
\* before filtering is min(1.0, P + sum over the query tokens longer than two
\* characters of 0.1 if the searchable text contains the token plus 0.2 if the
\* title contains it too), P being 0.5 if the searchable text contains the
\* whole lowercased query and 0 otherwise.
C1_ScoreFormula ==
    TheCall =>
        /\ Len(msScored) = Len(articles)
        /\ \A i \in 1..Len(articles) :
              /\ msScored[i].id = articles[i].id
              /\ msScored[i].score =
                    (IF UncappedScore(articles[i], msQuery) > 10
                     THEN 10 ELSE UncappedScore(articles[i], msQuery))

\* A call where one article's sum passes the cap and another matches a
\* token in its text only.
C1_Witness ==
    /\ TheCall
    /\ \E i \in 1..Len(articles) : UncappedScore(articles[i], msQuery) > 10
    /\ \E i \in 1..Len(articles) : msScored[i].score \in 1..9

C2_Case ==
    /\ TheCall
    /\ articles = TypeScriptGuideCorpus
    /\ msQuery = sTypescript
    /\ msLimit = Num(10)

\* C2 as stated: on the corpus of the one article "TypeScript Guide" the query
\* "typescript" returns exactly one result, with score 0.3.
C2_Original ==
    C2_Case => Len(msResults) = 1 /\ msResults[1].score = 3

\* C2, amended: on the corpus of the one article "TypeScript Guide" the query
\* "typescript" returns exactly one result, with score 0.8: the exact-phrase
\* bonus 0.5 applies as well, since the searchable text contains the query.
C2_ScoreIsPointEight ==
    C2_Case =>
        /\ Len(msResults) = 1
        /\ msResults[1].id = "a1"
        /\ msResults[1].score = 8

C2_Witness == C2_Case /\ Len(msResults) = 1

IsBlank(q) == \A i \in 1..Len(q) : IsSpace(q[i])

\* C3: for every corpus and every limit, the empty query and a query made
\* only of whitespace return an empty result sequence.
C3_BlankQueryEmptyResult ==
    (TheCall /\ IsBlank(msQuery)) => msResults = <<>>

(***************************************************************************)
(* Claims about GET /api/search.                                           *)
(***************************************************************************)
Called(fn) == \E i \in 1..Len(calls) : calls[i].fn = fn

GetAnswered == req.method = "GET" /\ apiPc = "done"

DemoFlagIsTrue == env.NEXT_PUBLIC_DEMO_MODE = Some("true")

\* C4: GET /api/search with no q parameter is answered 400 before any backend
\* is invoked: neither mockSearch nor searchArticles is called on that
\* request, in demo mode or not.
C4_NoQueryIs400 ==
    (req.method = "GET" /\ IsNone(req.q)) =>
        /\ apiPc = "done"
        /\ resp.status = 400
        /\ resp.error = Some(MsgQueryRequired)
        /\ calls = <<>>

C4_Witness ==
    /\ GetAnswered
    /\ IsNone(req.q)
    /\ DemoFlagIsTrue
    /\ resp.status = 400

\* C5: with no vector-backend API key and the demo flag not set, GET
\* /api/search with a non-empty q is answered 503 with an explanatory error,
\* never 500.
C5_Unconfigured503 ==
    (GetAnswered /\ ~Falsy(req.q) /\ IsNone(env.PINECONE_API_KEY) /\ ~DemoFlagIsTrue) =>
        /\ resp.status = 503
        /\ resp.error = Some(MsgNotConfigured)

C5_Witness ==
    /\ GetAnswered
    /\ ~Falsy(req.q)
    /\ IsNone(env.PINECONE_API_KEY)
    /\ IsNone(env.NEXT_PUBLIC_DEMO_MODE)
    /\ resp.status = 503

AllRequiredMissing ==
    /\ IsNone(env.DRUPAL_BASE_URL)
    /\ IsNone(env.DRUPAL_CLIENT_ID)
    /\ IsNone(env.PINECONE_API_KEY)

\* C6 as stated: when the content-source URL, the OAuth credentials and the
\* vector-provider API key are all missing, a search request with a non-empty
\* query is answered by the fallback scorer instead of failing.
C6_Original ==
    (GetAnswered /\ ~Falsy(req.q) /\ AllRequiredMissing) =>
        /\ Called("mockSearch")
        /\ resp.status = 200

\* C6, amended: when all required variables are missing, a search request
\* with a non-empty query is answered by the fallback scorer exactly when
\* NEXT_PUBLIC_DEMO_MODE is 'true'; with the flag unset or set to anything
\* else the fallback scorer is not called and the request is answered 503.
C6_FallbackOnlyWithDemoFlag ==
    (GetAnswered /\ ~Falsy(req.q) /\ AllRequiredMissing) =>
        IF DemoFlagIsTrue
        THEN /\ calls = <<[fn |-> "mockSearch", arg |-> Val(req.q)]>>
             /\ resp.status = 200
             /\ resp.results = mockSearch(articles, Val(req.q), LimitOf(req.limit))
        ELSE /\ ~Called("mockSearch")
             /\ resp.status = 503

C6_Witness ==
    /\ GetAnswered
    /\ AllRequiredMissing
    /\ DemoFlagIsTrue
    /\ Called("mockSearch")
    /\ Len(resp.results) > 0

\* C7: a failure of the vector search that is not the missing-configuration
\* failure is answered 500 with the fixed message 'Search failed. Please try
\* again.', and no answer to a failed search contains the text of the error.
C7_GenericFailure ==
    (GetAnswered /\ ~IsNone(thrown)) =>
        /\ ~IsNone(env.PINECONE_API_KEY) =>
              /\ resp.status = 500
              /\ resp.error = Some(MsgSearchFailed)
        /\ ~IsNone(Val(thrown)) =>
              ~Includes(Val(resp.error), Val(Val(thrown)))

C7_Witness ==
    /\ GetAnswered
    /\ thrown = Some(Some(ErrFetchFailed))
    /\ resp.status = 500

\* C29: when NEXT_PUBLIC_DEMO_MODE is exactly 'true', GET /api/search with a
\* non-empty q never calls searchArticles and is answered 200 with query,
\* results and totalResults, the results being what the fallback scorer
\* returns for q and the parsed limit and totalResults their number; when the
\* flag has any other value the fallback scorer is never called.
C29_DemoServesFallbackOnly ==
    /\ (DemoFlagIsTrue /\ req.method = "GET") => ~Called("searchArticles")
    /\ (DemoFlagIsTrue /\ GetAnswered /\ ~Falsy(req.q)) =>
          /\ calls = <<[fn |-> "mockSearch", arg |-> Val(req.q)]>>
          /\ resp.status = 200
          /\ resp.query = req.q
          /\ resp.results = mockSearch(articles, Val(req.q), LimitOf(req.limit))
          /\ resp.totalResults = Some(Len(resp.results))
          /\ IsNone(resp.error)
    /\ ~DemoFlagIsTrue => ~Called("mockSearch")

C29_Witness ==
    /\ GetAnswered
    /\ DemoFlagIsTrue
    /\ ~IsNone(env.PINECONE_API_KEY)
    /\ Len(resp.results) = 1
    /\ resp.totalResults = Some(1)
    /\ Len(articles) = 2

(***************************************************************************)
(* Claims about POST /api/revalidate.                                      *)
(***************************************************************************)
PostAnswered == req.method = "POST" /\ apiPc = "done"

\* The secret a request carries: the form field, or the secret of the JSON
\* body, or else the x-revalidate-secret header.
SuppliedSecret(r) ==
    IF IsForm(r) THEN r.secret
    ELSE IF r.bodyOk THEN OrElse(r.secret, r.headerSecret)
    ELSE r.headerSecret

\* C8: POST /api/revalidate is answered 500 when no revalidation secret is
\* configured and 401 when the supplied secret differs from the configured
\* one, and in both cases neither revalidateTag nor revalidatePath is called.
\* (Stated for the requests that carry a secret.)
C8_SecretGuards ==
    PostAnswered =>
        IF Falsy(env.DRUPAL_REVALIDATE_SECRET)
        THEN resp.status = 500 /\ calls = <<>>
        ELSE (/\ ~IsNone(SuppliedSecret(req))
              /\ SuppliedSecret(req) # env.DRUPAL_REVALIDATE_SECRET) =>
                 resp.status = 401 /\ calls = <<>>

\* slug or path with the leading '/' the claim describes.
ClaimedPath(target) ==
    IF Falsy(target) THEN <<"/">>
    ELSE IF Val(target)[1] = "/" THEN Val(target)
    ELSE <<"/">> \o Val(target)

RevalidatedExactly(p) ==
    /\ calls = << [fn |-> "revalidateTag", arg |-> <<"d","r","u","p","a","l">>],
                  [fn |-> "revalidatePath", arg |-> p] >>
    /\ resp.status = 200
    /\ resp.revalidated
    /\ resp.path = Some(p)

\* The matching secret, sent in a form-urlencoded body or in a JSON body.
MatchingSecretSent ==
    /\ PostAnswered
    /\ ~Falsy(env.DRUPAL_REVALIDATE_SECRET)
    /\ (IsForm(req) \/ req.bodyOk)
    /\ req.secret = env.DRUPAL_REVALIDATE_SECRET

\* C9 as stated: with the matching secret the 'drupal' tag and exactly one
\* path are invalidated: the supplied slug/path with a leading '/' added when
\* it has none, or '/' when no slug/path is supplied.
C9_Original ==
    MatchingSecretSent => RevalidatedExactly(ClaimedPath(OrElse(req.slug, req.path)))

\* C9, amended: with the matching secret the 'drupal' tag and exactly one
\* path are invalidated and reported: the target with a leading '/' added
\* when it has none, or '/' when there is no target, the target being the
\* slug field and, in a JSON body only, the path field when the slug is absent
\* or empty; the path field of a form-urlencoded body is not read.
C9_RevalidatesOnePath ==
    MatchingSecretSent =>
        RevalidatedExactly(
            ClaimedPath(IF IsForm(req) THEN req.slug ELSE OrElse(req.slug, req.path)))

C9_Witness ==
    /\ MatchingSecretSent
    /\ IsForm(req)
    /\ req.slug = Some(<<"b","l","o","g">>)
    /\ resp.path = Some(<<"/","b","l","o","g">>)
    /\ Len(calls) = 2

(***************************************************************************)
(* Claims about the indexer.                                               *)
(***************************************************************************)
Issued(name) == \E i \in 1..Len(ixOps) : ixOps[i].op = name

\* The steps in the order main() takes them.
StepRank(o) ==
    CASE o.op = "listIndexes" -> 1
      [] o.op = "createIndex" -> 1
      [] o.op = "deleteAll" -> 2
      [] o.op = "fetchArticles" -> 3
      [] OTHER -> 4

CorpusPos(id) == CHOOSE k \in 1..Len(msScored) : msScored[k].id = id

Returned(id) == \E i \in 1..Len(msResults) : msResults[i].id = id

\* The articles that match: those whose score before filtering is above 0.
Matching == { k \in 1..Len(msScored) : msScored[k].score > 0 }

\* C15: the fallback scorer never returns an article whose score is 0 or
\* less: every returned result has a score above 0 and is an article of the
\* corpus with that score, and an article with a score above 0 is left out
\* only when the limit is not a number or is below the number of matching
\* articles, and then no returned result scores lower than it.
C15_OnlyPositiveScores ==
    TheCall =>
        /\ \A i \in 1..Len(msResults) :
              /\ msResults[i].score > 0
              /\ \E k \in 1..Len(msScored) : msScored[k] = msResults[i]
        /\ \A k \in Matching :
              ~Returned(msScored[k].id) =>
                  /\ msLimit.nan \/ msLimit.n < Cardinality(Matching)
                  /\ \A i \in 1..Len(msResults) :
                        msResults[i].score >= msScored[k].score

C15_Witness ==
    /\ TheCall
    /\ Len(msScored) = 2
    /\ \E k \in 1..Len(msScored) : msScored[k].score = 0
    /\ Len(msResults) = 1
    /\ msLimit = Num(10)

\* C16: for every query, limit and corpus the result list is sorted by score,
\* non-increasing, and every score in it lies within [0, 1].
C16_SortedWithinUnit ==
    TheCall =>
        /\ \A i, j \in 1..Len(msResults) :
              i < j => msResults[i].score >= msResults[j].score
        /\ \A i \in 1..Len(msResults) :
              msResults[i].score >= 0 /\ msResults[i].score <= ScoreCap

C16_Witness ==
    /\ TheCall
    /\ Len(msResults) = 2
    /\ msResults[1].score = ScoreCap
    /\ msResults[2].score < ScoreCap
    /\ msResults[1].id = articles[2].id

\* C17: among the results, articles with equal scores appear in their
\* original corpus order.
C17_TiesKeepCorpusOrder ==
    TheCall =>
        \A i, j \in 1..Len(msResults) :
            (i < j /\ msResults[i].score = msResults[j].score) =>
                CorpusPos(msResults[i].id) < CorpusPos(msResults[j].id)

C17_Witness ==
    /\ TheCall
    /\ Len(msResults) = 2
    /\ msResults[1].score = msResults[2].score

\* The sorted list of matching articles: the result of the same call with a
\* limit no list reaches.
FullSortedList == mockSearch(articles, msQuery, Num(Len(articles)))

\* C18: for every integer limit /api/search passes, 0 and negative ones
\* included, the result has min(limit, number of matching articles) entries
\* (none when that is below 0) and is a prefix of the full sorted list.
\* (Stated for the queries that are not blank.)
C18_FirstLimitEntries ==
    (TheCall /\ ~msLimit.nan /\ ~IsBlank(msQuery)) =>
        /\ Len(msResults) =
              (IF Min(msLimit.n, Cardinality(Matching)) < 0 THEN 0
               ELSE Min(msLimit.n, Cardinality(Matching)))
        /\ msResults = SubSeq(FullSortedList, 1, Len(msResults))

LoopCallFailed(error) ==
    IF IsNone(error) THEN FALSE ELSE Val(error).op \in {"embed", "upsert"}

\* The record a failure-free embed and upsert leave for an article.
IndexedRecord(article) == RecordOf(article, EmbeddingOf(article))

\* C11: in an indexing run, the first failure of an embedding request or of
\* an upsert aborts the run: the failing call is the last call the run
\* issues, so no embed or upsert is issued for any later article, and the run
\* is and stays in the failed state with exit code 1, never in the state that
\* reports success.
C11_FirstFailureAborts ==
    LoopCallFailed(ixError) =>
        /\ ixPc = "failed"
        /\ ixExit = Some(1)
        /\ ixOps[Len(ixOps)] = Val(ixError)
        /\ Val(ixError).id = ixArticles[ixI].id
        /\ \A j \in 1..Len(ixOps) :
              ixOps[j].op \in {"embed", "upsert"} =>
                  \E k \in 1..ixI : ixArticles[k].id = ixOps[j].id

C11_Witness ==
    /\ LoopCallFailed(ixError)
    /\ Val(ixError).op = "embed"
    /\ ixI = 1
    /\ Len(ixArticles) = 2
    /\ indexState = "ready"

\* C12: after any sequence of indexing runs the index holds at most one
\* record per article id, and right after the upsert of an article the one
\* record of its id carries the vector and the metadata of that write, also
\* when an earlier run had written a record for the same id.
C12_OneRecordPerId ==
    /\ \A r1, r2 \in store : r1.id = r2.id => r1 = r2
    /\ ixPc = "delay" =>
          { r \in store : r.id = ixArticles[ixI].id }
              = { IndexedRecord(ixArticles[ixI]) }

C12_Witness ==
    /\ ixRun = 2
    /\ ixPc = "delay"
    /\ ixArticles[ixI].title = "Alpha, revised"
    /\ ~shouldReset
    /\ Val(ixPrev).outcome = "done"
    /\ \E r \in Val(ixPrev).after : r.id = "n1" /\ r.metadata.title = "Alpha"
    /\ \E k \in 1..Len(Val(ixPrev).articles) :
          Val(ixPrev).articles[k].title = "Alpha"

\* The records a single failure-free run over the articles leaves, from the
\* records held before it.
SingleRunResult(before, arts, cleared) ==
    { r \in (IF cleared THEN {} ELSE before) :
        \A k \in 1..Len(arts) : arts[k].id # r.id }
      \cup { IndexedRecord(arts[k]) : k \in 1..Len(arts) }

\* The run before this one failed in its loop, and this one went over the
\* same articles without any failure.
RecoveredRun ==
    /\ ixRun >= 2
    /\ ixPc = "done"
    /\ ixClear \in {"none", "cleared"}
    /\ LoopCallFailed(Val(ixPrev).error)
    /\ Val(ixPrev).articles = ixArticles

\* C13: when a run fails while it processes the k-th article, the records
\* upserted for the articles before it are in the index (nothing is rolled
\* back), and when a later run over the same articles ends without a failure
\* the index holds exactly the records a single failure-free run would have
\* left from the records held before the failed run.
C13_PartialThenRecovered ==
    /\ LoopCallFailed(ixError) =>
          \A j \in 1..(ixI - 1) : IndexedRecord(ixArticles[j]) \in store
    /\ RecoveredRun =>
          store = SingleRunResult(Val(ixPrev).before, ixArticles,
                                  Val(ixPrev).cleared \/ ixClear = "cleared")

C13_Witness ==
    /\ RecoveredRun
    /\ Len(ixArticles) = 2
    /\ Val(ixPrev).failedAt = 2
    /\ Val(ixPrev).after # Val(ixPrev).before
    /\ Val(ixPrev).before # {}
    /\ Cardinality(store) = 3

\* C14: when the clear of the index fails with an error that says the index
\* is empty, the run does not abort on it: it goes on to fetch the articles,
\* and it ends in the failed state only for an error of the fetch, of an
\* embed or of an upsert.
C14_EmptyClearIsNotFatal ==
    ixClear = "empty" =>
        /\ ixError # Some(Op("deleteAll", ""))
        /\ ixPc = "fetch" \/ Issued("fetchArticles")
        /\ ixPc = "failed" =>
              Val(ixError).op \in {"fetchArticles", "embed", "upsert"}

C14_Witness ==
    /\ ixClear = "empty"
    /\ ixPc = "done"
    /\ Len(ixArticles) = 2
    /\ Cardinality(store) = 2
    /\ Issued("embed")
    /\ Issued("upsert")

(***************************************************************************)
(* Claims about the order of the steps of an indexing run.                 *)
(***************************************************************************)
IsLoopCall(o) == o.op \in {"embed", "upsert"}

\* The embed and upsert requests issued so far, in their order.
LoopCalls == SelectSeq(ixOps, IsLoopCall)

\* One request at most has not settled, it is the last one issued, and the
\* requests went out in input order, for each article the embed and then,
\* after the embed had settled with a vector, the upsert.
LoopCallsInOrder ==
    /\ Cardinality(ixPending) <= 1
    /\ \A o \in ixPending : o = ixOps[Len(ixOps)]
    /\ \A k \in 1..Len(LoopCalls) :
          LoopCalls[k] = Op(IF k % 2 = 1 THEN "embed" ELSE "upsert",
                            ixArticles[(k + 1) \div 2].id)
    /\ \A k \in 1..Len(LoopCalls) :
          (k = Len(LoopCalls) /\ LoopCalls[k].op = "upsert") =>
              /\ Op("embed", LoopCalls[k].id) \notin ixPending
              /\ ixEmbedding = Some(EmbeddingOf(ixArticles[k \div 2]))

\* The loop takes up the next article only when the delay elapses, with no
\* request outstanding and the upsert of the article before it settled; a
\* request goes out only when none is outstanding; the delay starts only when
\* an upsert has settled.
LoopStepsInOrder ==
    /\ (ixI >= 1 /\ ixI' = ixI + 1) =>
          /\ ixPc = "delay"
          /\ ixPending = {}
          /\ ixOps[Len(ixOps)] = Op("upsert", ixArticles[ixI].id)
          /\ ixOps' = ixOps
    /\ (Len(ixOps') > Len(ixOps) /\ IsLoopCall(ixOps'[Len(ixOps')])) =>
          ixPending = {}
    /\ (ixPc # "delay" /\ ixPc' = "delay") =>
          /\ ixPc = "upserting"
          /\ ixPending' = {}

\* C24: during an indexing run at most one provider request is outstanding
\* at any time and the articles are processed strictly in input order: for
\* each article the embed request completes before its upsert is issued, and
\* the embed of article i+1 is issued only after the upsert of article i has
\* completed and the fixed delay has elapsed.
C24_OneRequestAtATime ==
    []LoopCallsInOrder
      /\ [][LoopStepsInOrder]_<<scorerVars, apiVars, ixVars, nzVars, uiVars>>

C24_Witness ==
    /\ ixPc = "embedding"
    /\ ixI = 2
    /\ ixPending = {Op("embed", ixArticles[2].id)}
    /\ Len(LoopCalls) = 3

IsDataCall(o) == o.op \in {"deleteAll", "embed", "upsert"}

CountOf(name) == Cardinality({ k \in 1..Len(ixOps) : ixOps[k].op = name })

\* No deleteAll, embed or upsert is in the log while the index does not exist
\* or the run is still in ensureIndexExists; listIndexes is asked once and
\* createIndex at most once, right after it.
EnsuredBeforeData ==
    /\ (\E k \in 1..Len(ixOps) : IsDataCall(ixOps[k])) =>
          /\ indexState # "absent"
          /\ ixPc \notin {"start", "listIndexes", "createIndex", "waitReady"}
    /\ CountOf("listIndexes") <= 1
    /\ CountOf("createIndex") <= 1
    /\ \A k \in 1..Len(ixOps) :
          /\ ixOps[k].op = "listIndexes" => k = 1
          /\ ixOps[k].op = "createIndex" => k = 2

\* createIndex is called exactly when listIndexes did not have the index, it
\* is followed by the wait, and the wait ends by itself, with no request.
EnsureSteps ==
    /\ (ixPc = "listIndexes" /\ ixPc' \notin {"listIndexes", "failed"}) =>
          (ixPc' = "createIndex" <=> indexState = "absent")
    /\ (Len(ixOps') > Len(ixOps) /\ ixOps'[Len(ixOps')].op = "createIndex") =>
          /\ indexState = "absent"
          /\ ixPc = "createIndex"
    /\ ixPc = "createIndex" => ixPc' \in {"createIndex", "waitReady", "failed"}
    /\ (ixPc = "waitReady" /\ ixPc' # "waitReady") =>
          /\ ixOps' = ixOps
          /\ ixPc' = AfterEnsure(shouldReset)

\* C25: the indexer creates the index only when listIndexes does not contain
\* its name, and then waits the fixed readiness delay before it goes on: no
\* deleteAll, embed or upsert is issued against an index that does not exist
\* or whose creation wait has not elapsed, and the wait is bounded: the run
\* leaves it whether or not the index has become ready.
C25_CreateThenBoundedWait ==
    /\ []EnsuredBeforeData
    /\ [][EnsureSteps]_<<scorerVars, apiVars, ixVars, nzVars, uiVars>>
    /\ (ixPc = "waitReady") ~> (ixPc # "waitReady")

C25_Witness ==
    /\ Issued("createIndex")
    /\ Issued("deleteAll")
    /\ Issued("upsert")
    /\ indexState = "initializing"
    /\ ixPc = "failed"

\* The ids of the fetched articles.
FetchedIds == { ixArticles[k].id : k \in 1..Len(ixArticles) }

\* C28: an indexing run without the reset flag leaves every record whose id
\* is not among the fetched articles as it was (none is changed or removed,
\* none is added), so the records of articles removed from the content source
\* stay in the index; a run with the reset flag whose clear succeeds and
\* which completes leaves the index holding exactly the ids of the fetched
\* articles.
C28_ResetFrame ==
    /\ ~shouldReset =>
          \A r \in ixStart \cup store :
              r.id \notin FetchedIds => (r \in ixStart /\ r \in store)
    /\ (shouldReset /\ ixClear = "cleared" /\ ixPc = "done") =>
          { r.id : r \in store } = FetchedIds

C28_Witness ==
    /\ ~shouldReset
    /\ ixPc = "done"
    /\ Len(ixArticles) = 2
    /\ \E r \in store : r.id = "n9"
    /\ Cardinality(store) = 3

(***************************************************************************)
(* The normalizer on one answer of the content source, and the claims      *)
(* about it.                                                               *)
(***************************************************************************)
NormalizerInit ==
    /\ env = DefaultEnv
    /\ ApiIdle
    /\ articles = DemoCorpus
    /\ ScorerIdle
    /\ IndexerIdle
    /\ SearchPageIdle
    /\ nzNodes \in RawSnapshots
    /\ nzArticles = <<>>
    /\ nzPc = "raw"
    /\ taNode = None
    /\ taResult = [state |-> "none", value |-> None]

NormalizerNext == NZ_MapNodes

SpecNormalizer ==
    NormalizerInit /\ [][NormalizerNext]_<<scorerVars, apiVars, ixVars, nzVars, uiVars>>

\* No two raw nodes carry the same path.
DistinctPaths ==
    \A i, j \in 1..Len(nzNodes) :
        (i # j /\ ~IsNone(nzNodes[i].path) /\ ~IsNone(nzNodes[j].path))
            => nzNodes[i].path # nzNodes[j].path

\* C20: within one content snapshot whose raw nodes have pairwise distinct
\* ids, the slugs the normalizer derives (the path with the '/articles/'
\* prefix stripped, or the id when the path is absent or strips to empty) are
\* pairwise distinct.  (Stated for the snapshots in which no two nodes carry
\* the same path.)
C20_SlugsDistinct ==
    (nzPc = "done" /\ DistinctPaths) =>
        \A i, j \in 1..Len(nzArticles) :
            i # j => nzArticles[i].slug # nzArticles[j].slug

(***************************************************************************)
(* transformArticle on one raw node, and the claims about the fields of    *)
(* the article.                                                            *)
(***************************************************************************)
TransformInit ==
    /\ env = DefaultEnv
    /\ ApiIdle
    /\ articles = DemoCorpus
    /\ ScorerIdle
    /\ IndexerIdle
    /\ nzNodes = <<>>
    /\ nzArticles = <<>>
    /\ nzPc = "idle"
    /\ SearchPageIdle
    /\ taNode \in {None} \cup { Some(n) : n \in TransformNodes }
    /\ taResult = [state |-> "none", value |-> None]

TransformNext == TA_Call

SpecTransform ==
    TransformInit /\ [][TransformNext]_<<scorerVars, apiVars, ixVars, nzVars, uiVars>>

\* C21: the normalizer returns null exactly when the raw node is absent, and
\* for every present node it returns an Article without raising, whatever
\* its optional fields are.
C21_NeverRaises ==
    taResult.state # "none" =>
        /\ taResult.state = "returned"
        /\ IsNone(taResult.value) <=> IsNone(taNode)

\* The call returned an article.
ArticleReturned ==
    IF taResult.state = "returned" THEN ~IsNone(taResult.value) ELSE FALSE

\* The places of the commas of a string, and the k-th of them.
CommaPlaces(s) == { i \in 1..Len(s) : s[i] = "," }

NthComma(s, k) ==
    CHOOSE i \in CommaPlaces(s) :
        Cardinality({ j \in CommaPlaces(s) : j < i }) = k - 1

\* The k-th of the pieces the commas cut a string into.
CommaPiece(s, k) ==
    LET lo == IF k = 1 THEN 0 ELSE NthComma(s, k - 1)
        hi == IF k = Cardinality(CommaPlaces(s)) + 1 THEN Len(s) + 1
              ELSE NthComma(s, k)
    IN SubSeq(s, lo + 1, hi - 1)

\* t is the piece without the whitespace around it.
IsTrimmed(t, piece) ==
    \E a, b \in 0..Len(piece) :
        /\ a + b <= Len(piece)
        /\ t = SubSeq(piece, a + 1, Len(piece) - b)
        /\ \A m \in 1..a : IsSpace(piece[m])
        /\ \A m \in (Len(piece) - b + 1)..Len(piece) : IsSpace(piece[m])
        /\ IF t = <<>> THEN TRUE ELSE ~IsSpace(t[1]) /\ ~IsSpace(t[Len(t)])

\* C22: for every raw node whose tags field is a comma-delimited string, the
\* tags of the article are the pieces between the commas, in their order,
\* each without the whitespace around it, so "a, b , c" gives "a", "b", "c";
\* a node without a tags field (or with an empty one) gives the empty
\* sequence.
C22_TagsSplitAndTrimmed ==
    ArticleReturned =>
        LET raw == Val(taNode).tags
            tags == Val(taResult.value).tags
        IN IF Falsy(raw) THEN tags = <<>>
           ELSE /\ Len(tags) = Cardinality(CommaPlaces(Val(raw))) + 1
                /\ \A k \in 1..Len(tags) :
                      IsTrimmed(tags[k], CommaPiece(Val(raw), k))
                /\ Val(raw) = sTagsABC => tags = << <<"a">>, <<"b">>, <<"c">> >>

C22_Witness ==
    /\ ArticleReturned
    /\ Val(taNode).tags = Some(sTagsABC)
    /\ Val(taResult.value).tags = << <<"a">>, <<"b">>, <<"c">> >>

\* C23: for every raw node with no category (absent, null or empty) the
\* category of the article is exactly "General"; for every node with a
\* non-empty category it is that category unchanged.
C23_CategoryDefault ==
    ArticleReturned =>
        LET raw == Val(taNode).category
            category == Val(taResult.value).category
        IN /\ IsNone(raw) => category = sGeneral
           /\ raw = Some(<<>>) => category = sGeneral
           /\ (~IsNone(raw) /\ raw # Some(<<>>)) => category = Val(raw)

C23_Witness ==
    /\ ArticleReturned
    /\ Val(taNode).category = Some(<<>>)
    /\ Val(taResult.value).category = sGeneral

SearchPageInit ==
    /\ env = DefaultEnv
    /\ ApiIdle
    /\ articles = DemoCorpus
    /\ ScorerIdle
    /\ IndexerIdle
    /\ NormalizerIdle
    /\ uiPc = "rendered"
    /\ uiUrl \in {None} \cup { Some(q) : q \in PageQueries }
    /\ uiQuery = InitialQuery(uiUrl)
    /\ uiState = InitialState(InitialQuery(uiUrl))
    /\ uiTimer = None
    /\ uiElapsed = 0
    /\ uiRequests = <<>>
    /\ uiChanges = 0
    /\ uiReset = FALSE

SearchPageNext ==
    UI_Mount \/ UI_QueryChange \/ UI_Clear \/ UI_Tick \/ UI_TimerFires
    \/ UI_Response

SpecSearchPage ==
    SearchPageInit /\ [][SearchPageNext]_<<scorerVars, apiVars, ixVars, nzVars, uiVars>>

\* The requests that have not been answered yet.
InFlight == { n \in 1..Len(uiRequests) : IsNone(uiRequests[n].outcome) }

\* C26: the search page debounces: every request to /api/search was sent
\* when the query text had stayed unchanged for 300 ms, a pending timer is
\* always the one of the present query text (a change cancels the older
\* one), and no query text, the initial q of the URL included, has caused
\* more than one request while it stayed unchanged.
C26_DebouncedOncePerQuery ==
    /\ \A n \in 1..Len(uiRequests) : uiRequests[n].waited >= DebounceMs
    /\ ~IsNone(uiTimer) => Val(uiTimer) = uiQuery
    /\ \A m, n \in 1..Len(uiRequests) :
          m # n => uiRequests[m].change # uiRequests[n].change

\* C27: once no request is in flight and no timer is pending, the page
\* shows the answer to the request sent last, or the reset state if the
\* input was cleared or a blank query was searched after that request was
\* sent: an answer that arrives late never replaces the newer state.
C27_LatestRequestShown ==
    (uiRequests # <<>> /\ InFlight = {} /\ IsNone(uiTimer)) =>
        uiState = IF uiReset THEN ClearedState
                  ELSE StateAfter(Val(uiRequests[Len(uiRequests)].outcome))

=========================================================================
